---- MODULE Spec2Model ----
(***************************************************************************)
(* RESP3 decoding (src/src/resp3/decode.rs): the nom parsers d_*, the two  *)
(* entry points complete::decode and streaming::decode, and the documented *)
(* tokio codec loops that drive them.                                      *)
(*                                                                         *)
(* A byte is a one-character string; "FF" stands for the byte 0xFF, which  *)
(* is never part of valid UTF-8, "x02" and "x03" for the bytes 2 and 3.    *)
(* A byte string is a sequence of bytes.                                   *)
(***************************************************************************)
EXTENDS Integers, Sequences, FiniteSets, TLC

VARIABLES
    buf,            \* the byte slice handed to complete::decode / streaming::decode
    result,         \* which decode was last called on buf, and what it returned
    fed,            \* how many wire pieces the transport has appended
    tail,           \* how many of them arrived after the first frame was decided
    sent,           \* tests: the stream written into bytes (header, children)
    bytes,          \* tests: the BytesMut the streaming tests drain
    streamed,       \* tests: the StreamedFrame taken from the header, if any
    log,            \* tests: what each stream_decode call returned, in order
    src,            \* RedisCodec::decode's src: BytesMut
    decoder_stream, \* RedisCodec.decoder_stream: Option<StreamedFrame>
    ret,            \* what the last RedisCodec::decode call returned
    profile         \* the build: "debug" (overflow checks on) or "release"

vars == <<buf, result, fed, tail, sent, bytes, streamed, log, src, decoder_stream, ret, profile>>

(***************************************************************************)
(* Bounds of the model.                                                    *)
(***************************************************************************)
\* wire pieces appended to one buffer
MaxFeed == 3
\* pieces appended after the decoder has stopped answering "incomplete"
MaxTail == 1

(***************************************************************************)
(* Bytes.                                                                  *)
(***************************************************************************)
CR == "\r"
LF == "\n"
CRLF == <<CR, LF>>
HELLO == <<"H", "E", "L", "L", "O">>
AUTH == <<"A", "U", "T", "H">>
EMPTY_SPACE == <<" ">>
InvalidUtf8Byte == "FF"

Drop(s, n) == SubSeq(s, n + 1, Len(s))
Take(s, n) == SubSeq(s, 1, n)

\* str::from_utf8(bytes).is_ok()
from_utf8_ok(text) == \A i \in 1..Len(text) : text[i] # InvalidUtf8Byte

(***************************************************************************)
(* nom's IResult: Ok((rest, value)), Err(Incomplete), Err(Error).          *)
(***************************************************************************)
Ok(rest, v) == [t |-> "Ok", rest |-> rest, v |-> v]
Incomplete == [t |-> "Incomplete"]
Error(id) == [t |-> "Error", id |-> id]
\* the thread panics instead of returning
Panic == [t |-> "Panic"]

\* nom::bytes::streaming::take(n)
nom_take(input, n) ==
    IF Len(input) < n THEN Incomplete ELSE Ok(Drop(input, n), Take(input, n))

\* nom::bytes::complete::take_until in its place: no match is an Error
nom_take_until_complete(input, pat) ==
    LET hits == {i \in 1..(Len(input) - Len(pat) + 1) :
                    SubSeq(input, i, i + Len(pat) - 1) = pat}
    IN IF hits = {} THEN Error("take_until")
       ELSE LET i == CHOOSE j \in hits : \A k \in hits : j <= k
            IN Ok(Drop(input, i - 1), Take(input, i - 1))

\* nom::bytes::streaming::take_until(pat): up to, not including, the first pat
nom_take_until(input, pat) ==
    LET hits == {i \in 1..(Len(input) - Len(pat) + 1) :
                    SubSeq(input, i, i + Len(pat) - 1) = pat}
    IN IF hits = {} THEN Incomplete
       ELSE LET i == CHOOSE j \in hits : \A k \in hits : j <= k
            IN Ok(Drop(input, i - 1), Take(input, i - 1))

\* nom::number::streaming::be_u8
be_u8(input) ==
    IF Len(input) < 1 THEN Incomplete ELSE Ok(Drop(input, 1), input[1])

\* nom_terminated(nom_take_until(pat), nom_take(n))
take_until_then(input, pat, n) ==
    LET a == nom_take_until(input, pat)
    IN IF a.t # "Ok" THEN a
       ELSE LET b == nom_take(a.rest, n)
            IN IF b.t # "Ok" THEN b ELSE Ok(b.rest, a.v)

\* nom_terminated(nom_take(len), nom_take(n))
take_then(input, len, n) ==
    LET a == nom_take(input, len)
    IN IF a.t # "Ok" THEN a
       ELSE LET b == nom_take(a.rest, n)
            IN IF b.t # "Ok" THEN b ELSE Ok(b.rest, a.v)

(***************************************************************************)
(* Text to number conversions (str::parse).                                *)
(***************************************************************************)
Digits == {"0", "1", "2", "3", "4", "5", "6", "7", "8", "9"}

DigitVal(c) ==
    CASE c = "0" -> 0 [] c = "1" -> 1 [] c = "2" -> 2 [] c = "3" -> 3
      [] c = "4" -> 4 [] c = "5" -> 5 [] c = "6" -> 6 [] c = "7" -> 7
      [] c = "8" -> 8 [] c = "9" -> 9

AllDigits(s) == Len(s) >= 1 /\ \A i \in 1..Len(s) : s[i] \in Digits

RECURSIVE DecVal(_)
DecVal(s) ==
    IF s = <<>> THEN 0
    ELSE 10 * DecVal(Take(s, Len(s) - 1)) + DigitVal(s[Len(s)])

\* usize, isize and i64 are 64 bits wide.  A value below Large is held exactly.
\* A larger one is held as Large (Large <= v < 2^63, not tracked further), as
\* Half + k (v = 2^63 + k with k < Large) or as Top (2^63 + Large <= v < 2^64).
Large == 200000
Half == 400000
Top == 800000

\* isize::MAX = 2^63 - 1, its successor 2^63, and usize::MAX = 2^64 - 1
IsizeMaxText == <<"9", "2", "2", "3", "3", "7", "2", "0", "3", "6", "8", "5", "4", "7", "7", "5", "8", "0", "7">>
IsizeMinText == <<"9", "2", "2", "3", "3", "7", "2", "0", "3", "6", "8", "5", "4", "7", "7", "5", "8", "0", "8">>
UsizeMaxText == <<"1", "8", "4", "4", "6", "7", "4", "4", "0", "7", "3", "7", "0", "9", "5", "5", "1", "6", "1", "5">>

RECURSIVE StripLeadingZeros(_)
StripLeadingZeros(s) ==
    IF Len(s) >= 2 /\ s[1] = "0" THEN StripLeadingZeros(Drop(s, 1)) ELSE s

\* a <= b for decimal texts without leading zeros
RECURSIVE TextLE(_, _)
TextLE(a, b) ==
    IF Len(a) # Len(b) THEN Len(a) < Len(b)
    ELSE IF a = <<>> THEN TRUE
    ELSE IF a[1] # b[1] THEN DigitVal(a[1]) < DigitVal(b[1])
    ELSE TextLE(Drop(a, 1), Drop(b, 1))

\* the value of a digit string that is at most limit, in the encoding above
wide_value(digits, limit) ==
    LET t == StripLeadingZeros(digits)
    IN IF ~TextLE(t, limit) THEN [ok |-> FALSE, v |-> 0]
       ELSE IF Len(t) <= 6
       THEN [ok |-> TRUE, v |-> IF DecVal(t) < Large THEN DecVal(t) ELSE Large]
       ELSE IF TextLE(t, IsizeMaxText) THEN [ok |-> TRUE, v |-> Large]
       ELSE IF Len(t) = 19 /\ Take(t, 13) = Take(IsizeMinText, 13)
       THEN LET k == DecVal(Drop(t, 13)) - DecVal(Drop(IsizeMinText, 13))
            IN [ok |-> TRUE, v |-> IF k < Large THEN Half + k ELSE Top]
       ELSE [ok |-> TRUE, v |-> Top]

\* usize::from_str: an optional '+', then one or more decimal digits, the value
\* at most usize::MAX
to_usize(s) ==
    LET body == IF Len(s) >= 1 /\ s[1] = "+" THEN Drop(s, 1) ELSE s
    IN IF AllDigits(body) THEN wide_value(body, UsizeMaxText)
       ELSE [ok |-> FALSE, v |-> 0]

\* `len * 2` on usize: ok is FALSE when the product does not fit in 64 bits, and
\* v is then the product modulo 2^64
usize_mul2(len) ==
    IF len < Large THEN [ok |-> TRUE, v |-> IF 2 * len < Large THEN 2 * len ELSE Large]
    ELSE IF len = Large THEN [ok |-> TRUE, v |-> Large]
    ELSE IF len = Top THEN [ok |-> FALSE, v |-> Large]
    ELSE [ok |-> FALSE, v |-> IF 2 * (len - Half) < Large THEN 2 * (len - Half) ELSE Large]

\* isize::from_str / i64::from_str: an optional '+' or '-', then digits, the
\* value within -2^63 .. 2^63 - 1
parse_signed(s) ==
    LET signed == Len(s) >= 1 /\ s[1] \in {"+", "-"}
        neg == signed /\ s[1] = "-"
        body == IF signed THEN Drop(s, 1) ELSE s
    IN IF AllDigits(body)
       THEN LET m == wide_value(body, IF neg THEN IsizeMinText ELSE IsizeMaxText)
            IN IF ~m.ok THEN [ok |-> FALSE, v |-> 0]
               ELSE [ok |-> TRUE,
                     v |-> IF neg THEN 0 - (IF m.v >= Large THEN Large ELSE m.v) ELSE m.v]
       ELSE [ok |-> FALSE, v |-> 0]

\* "?" read as the length 0
to_isize_zero(s) == IF s = <<"?">> THEN [ok |-> TRUE, v |-> 0] ELSE parse_signed(s)

to_isize(s) == IF s = <<"?">> THEN [ok |-> TRUE, v |-> -1] ELSE parse_signed(s)

isize_to_usize(n) == IF n < 0 THEN [ok |-> FALSE, v |-> 0] ELSE [ok |-> TRUE, v |-> n]

to_i64(s) == parse_signed(s)

to_bool(s) ==
    IF s = <<"t">> THEN [ok |-> TRUE, v |-> 1]
    ELSE IF s = <<"f">> THEN [ok |-> TRUE, v |-> 0]
    ELSE [ok |-> FALSE, v |-> 0]

to_verbatimstring_format(s) ==
    IF s = <<"t", "x", "t">> THEN [ok |-> TRUE, v |-> "Text"]
    ELSE IF s = <<"m", "k", "d">> THEN [ok |-> TRUE, v |-> "Markdown"]
    ELSE [ok |-> FALSE, v |-> ""]

\* f64::from_str on the bytes of the model's alphabet: an optional sign, then
\* "inf", "infinity", "nan", or digits with an optional '.' (at least one digit).
\* A finite value is num / 10^exp with trailing fraction zeros removed.
RECURSIVE StripZeros(_, _)
StripZeros(num, exp) ==
    IF exp > 0 /\ num % 10 = 0 THEN StripZeros(num \div 10, exp - 1)
    ELSE [num |-> num, exp |-> exp]

UpperLetters == <<"A", "B", "C", "D", "E", "F", "G", "H", "I", "J", "K", "L", "M",
                  "N", "O", "P", "Q", "R", "S", "T", "U", "V", "W", "X", "Y", "Z">>
LowerLetters == <<"a", "b", "c", "d", "e", "f", "g", "h", "i", "j", "k", "l", "m",
                  "n", "o", "p", "q", "r", "s", "t", "u", "v", "w", "x", "y", "z">>

\* u8::to_ascii_lowercase, as the float parser applies it to the special names
to_ascii_lowercase(ch) ==
    IF \E i \in 1..26 : UpperLetters[i] = ch
    THEN LowerLetters[CHOOSE i \in 1..26 : UpperLetters[i] = ch]
    ELSE ch

RECURSIVE Pow10(_)
Pow10(n) == IF n = 0 THEN 1 ELSE 10 * Pow10(n - 1)

\* str::parse::<f64>: [sign] (inf | infinity | nan, in any letter case), or
\* [sign] digits [. digits] [(e|E) [sign] digits] with at least one digit in
\* the mantissa.  The value is num * 10^(-exp), normalised.
to_f64(s) ==
    LET signed == Len(s) >= 1 /\ s[1] \in {"+", "-"}
        neg == signed /\ s[1] = "-"
        body == IF signed THEN Drop(s, 1) ELSE s
        lower == [i \in 1..Len(body) |-> to_ascii_lowercase(body[i])]
        es == {i \in 1..Len(body) : lower[i] = "e"}
        e == IF es = {} THEN Len(body) + 1 ELSE CHOOSE i \in es : \A j \in es : i <= j
        mant == Take(body, e - 1)
        expo == IF es = {} THEN [ok |-> TRUE, v |-> 0] ELSE parse_signed(Drop(body, e))
        dots == {i \in 1..Len(mant) : mant[i] = "."}
        dot == IF dots = {} THEN Len(mant) + 1 ELSE CHOOSE i \in dots : \A j \in dots : i <= j
        ip == Take(mant, dot - 1)
        fp == Drop(mant, dot)
        fail == [ok |-> FALSE, class |-> "", num |-> 0, exp |-> 0]
    IN IF lower \in {<<"i", "n", "f">>, <<"i", "n", "f", "i", "n", "i", "t", "y">>}
       THEN [ok |-> TRUE, class |-> IF neg THEN "-inf" ELSE "inf", num |-> 0, exp |-> 0]
       ELSE IF lower = <<"n", "a", "n">>
       THEN [ok |-> TRUE, class |-> "nan", num |-> 0, exp |-> 0]
       ELSE IF /\ Cardinality(dots) <= 1
               /\ Len(ip) + Len(fp) >= 1
               /\ \A i \in 1..Len(ip) : ip[i] \in Digits
               /\ \A i \in 1..Len(fp) : fp[i] \in Digits
               /\ expo.ok
       THEN LET scale == Len(fp) - expo.v
                m == IF scale >= 0 THEN StripZeros(DecVal(ip \o fp), scale)
                     ELSE [num |-> DecVal(ip \o fp) * Pow10(0 - scale), exp |-> 0]
            IN [ok |-> TRUE, class |-> "finite",
                num |-> IF neg THEN 0 - m.num ELSE m.num, exp |-> m.exp]
       ELSE fail

(***************************************************************************)
(* Frames.  Every frame is a record of the same shape, so that frames of   *)
(* different kinds can be compared:                                        *)
(*   data   the payload bytes (strings, blobs, big numbers, chunks)        *)
(*   num    the Number, the Boolean (1/0), the Double's mantissa, or the   *)
(*          Hello's version byte                                           *)
(*   exp    the Double's decimal exponent                                  *)
(*   aux    the VerbatimString's format, the Double's class, or the        *)
(*          Hello's RespVersion                                            *)
(*   extra  the Hello's password (data holds the username)                 *)
(*   items  the children: in wire order for Array and Push, in insertion   *)
(*          order for Set, and k1, v1, k2, v2, ... in insertion order for  *)
(*          Map (the insertion-ordered containers of the index-map         *)
(*          feature)                                                       *)
(*   attributes  Option<Attributes>: some, and the map as k1, v1, ...      *)
(***************************************************************************)
NoAttributes == [some |-> FALSE, map |-> <<>>]
SomeAttributes(m) == [some |-> TRUE, map |-> m]

BaseFrame(kind) ==
    [kind |-> kind, data |-> <<>>, num |-> 0, exp |-> 0, aux |-> "",
     extra |-> <<>>, items |-> <<>>, attributes |-> NoAttributes]

DataFrame(kind, data) == [BaseFrame(kind) EXCEPT !.data = data]
NumFrame(kind, n) == [BaseFrame(kind) EXCEPT !.num = n]
ItemsFrame(kind, items) == [BaseFrame(kind) EXCEPT !.items = items]

\* Frame::new_end_stream()
new_end_stream == BaseFrame("EndStream")

\* FrameKind::from_byte: the prefix byte table
from_byte(b) ==
    CASE b = "+" -> "SimpleString"
      [] b = "-" -> "SimpleError"
      [] b = ":" -> "Number"
      [] b = "," -> "Double"
      [] b = "$" -> "BlobString"
      [] b = "!" -> "BlobError"
      [] b = "#" -> "Boolean"
      [] b = "=" -> "VerbatimString"
      [] b = "(" -> "BigNumber"
      [] b = "_" -> "Null"
      [] b = "*" -> "Array"
      [] b = "%" -> "Map"
      [] b = "~" -> "Set"
      [] b = "|" -> "Attribute"
      [] b = ">" -> "Push"
      [] b = ";" -> "ChunkedString"
      [] b = "." -> "EndStream"
      [] b = "H" -> "Hello"
      [] OTHER -> "None"

LegalPrefixBytes ==
    {"+", "-", ":", ",", "$", "!", "#", "=", "(", "_", "*", "%", "~", "|", ">",
     ";", ".", "H"}

(***************************************************************************)
(* Frame equality (PartialEq): Set, Map and attribute containers compare   *)
(* as mathematical sets and maps, whatever their iteration order.          *)
(***************************************************************************)
Range(s) == {s[i] : i \in 1..Len(s)}
Pairs(m) == {<<m[2 * i - 1], m[2 * i]>> : i \in 1..(Len(m) \div 2)}
Keys(m) == {m[2 * i - 1] : i \in 1..(Len(m) \div 2)}

RECURSIVE FrameEq(_, _), SeqEq(_, _), SetEq(_, _), MapEq(_, _)
FrameEq(a, b) ==
    \/ a = b
    \/ /\ a.kind = b.kind
       /\ a.data = b.data /\ a.num = b.num /\ a.exp = b.exp
       /\ a.aux = b.aux /\ a.extra = b.extra
       /\ a.attributes.some = b.attributes.some
       /\ MapEq(a.attributes.map, b.attributes.map)
       /\ CASE a.kind = "Set" -> SetEq(a.items, b.items)
            [] a.kind = "Map" -> MapEq(a.items, b.items)
            [] OTHER -> SeqEq(a.items, b.items)
SeqEq(x, y) ==
    /\ Len(x) = Len(y)
    /\ \A i \in 1..Len(x) : FrameEq(x[i], y[i])
SetEq(x, y) ==
    /\ \A i \in 1..Len(x) : \E j \in 1..Len(y) : FrameEq(x[i], y[j])
    /\ \A j \in 1..Len(y) : \E i \in 1..Len(x) : FrameEq(x[i], y[j])
MapEq(x, y) ==
    /\ \A i \in 1..(Len(x) \div 2) : \E j \in 1..(Len(y) \div 2) :
          FrameEq(x[2 * i - 1], y[2 * j - 1]) /\ FrameEq(x[2 * i], y[2 * j])
    /\ \A j \in 1..(Len(y) \div 2) : \E i \in 1..(Len(x) \div 2) :
          FrameEq(x[2 * i - 1], y[2 * j - 1]) /\ FrameEq(x[2 * i], y[2 * j])

\* resp3_utils::new_map().insert(key, value): a present key keeps its place and
\* takes the new value, a new key goes last
map_insert(m, key, value) ==
    LET hit == {i \in 1..(Len(m) \div 2) : FrameEq(m[2 * i - 1], key)}
    IN IF hit = {} THEN m \o <<key, value>>
       ELSE [j \in 1..Len(m) |-> IF \E i \in hit : j = 2 * i THEN value ELSE m[j]]

\* resp3_utils::new_set().insert(frame)
set_insert(s, frame) ==
    IF \E i \in 1..Len(s) : FrameEq(s[i], frame) THEN s ELSE Append(s, frame)

\* the pairs inserted first to last
RECURSIVE to_map_loop_forward(_, _)
to_map_loop_forward(data, out) ==
    IF Len(data) < 2 THEN out
    ELSE to_map_loop_forward(Drop(data, 2), map_insert(out, data[1], data[2]))

RECURSIVE to_map_loop(_, _)
to_map_loop(data, out) ==
    IF Len(data) < 2 THEN out
    ELSE LET value == data[Len(data)]
             key == data[Len(data) - 1]
         IN to_map_loop(Take(data, Len(data) - 2), map_insert(out, key, value))

to_map(data) ==
    IF Len(data) % 2 # 0 THEN [ok |-> FALSE, v |-> <<>>]
    ELSE [ok |-> TRUE, v |-> to_map_loop(data, <<>>)]

RECURSIVE to_set_loop(_, _)
to_set_loop(data, out) ==
    IF data = <<>> THEN out
    ELSE to_set_loop(Tail(data), set_insert(out, Head(data)))

to_set(data) == [ok |-> TRUE, v |-> to_set_loop(data, <<>>)]

to_hello(version, auth) ==
    IF version \notin {"x02", "x03"} THEN [ok |-> FALSE, v |-> BaseFrame("Hello")]
    ELSE [ok |-> TRUE,
          v |-> [BaseFrame("Hello") EXCEPT
                    !.aux = IF version = "x02" THEN "RESP2" ELSE "RESP3",
                    !.num = IF auth.some THEN 1 ELSE 0,
                    !.data = auth.username,
                    !.extra = auth.password]]

(***************************************************************************)
(* DecodedFrame and StreamedFrame.                                         *)
(***************************************************************************)
Complete(frame) == [variant |-> "Complete", frame |-> frame]
Streaming(header) == [variant |-> "Streaming", streamed |-> header]

\* StreamedFrame::new(kind)
StreamedFrame_new(kind) ==
    [kind |-> kind, buffer |-> <<>>, attributes |-> NoAttributes, finished |-> FALSE]

\* the frame kinds that have an attributes field
CanHaveAttributes(kind) == kind \notin {"Null", "ChunkedString", "EndStream", "Hello"}

\* Attributes::extend: the entries of m, in order, inserted into base
RECURSIVE map_extend(_, _)
map_extend(base, m) ==
    IF Len(m) < 2 THEN base
    ELSE map_extend(map_insert(base, m[1], m[2]), Drop(m, 2))

add_to(attributes, m) ==
    IF attributes.some THEN SomeAttributes(map_extend(attributes.map, m))
    ELSE SomeAttributes(m)

\* DecodedFrame::add_attributes
add_attributes(frame, m) ==
    IF frame.variant = "Streaming"
    THEN [ok |-> TRUE,
          v |-> Streaming([frame.streamed EXCEPT
                              !.attributes = add_to(frame.streamed.attributes, m)])]
    ELSE IF CanHaveAttributes(frame.frame.kind)
    THEN [ok |-> TRUE,
          v |-> Complete([frame.frame EXCEPT
                             !.attributes = add_to(frame.frame.attributes, m)])]
    ELSE [ok |-> FALSE, v |-> frame]

\* DecodedFrame::into_complete_frame
into_complete_frame(frame) ==
    IF frame.variant = "Complete" THEN [ok |-> TRUE, v |-> frame.frame]
    ELSE [ok |-> FALSE, v |-> BaseFrame("None")]

is_streaming(frame) == frame.variant = "Streaming"

map_complete_frame(frame) == Complete(frame)

\* a streaming header taken for an empty aggregate of its kind
unwrap_complete_frame_lenient(frame) ==
    IF frame.variant = "Complete" THEN [ok |-> TRUE, v |-> frame.frame]
    ELSE [ok |-> TRUE, v |-> BaseFrame(frame.streamed.kind)]

unwrap_complete_frame(frame) == into_complete_frame(frame)

attach_attributes(attributes, frame) == add_attributes(frame, attributes)

\* DecodedFrame::into_streaming_frame
into_streaming_frame(frame) ==
    IF frame.variant = "Streaming" THEN [ok |-> TRUE, v |-> frame.streamed]
    ELSE [ok |-> FALSE, v |-> StreamedFrame_new("None")]

\* StreamedFrame::add_frame: an EndStream sets the flag, any other frame is
\* appended; a finished stream takes nothing more
add_frame(stream, frame) ==
    IF stream.finished THEN [ok |-> FALSE, v |-> stream]
    ELSE IF frame.kind = "EndStream"
    THEN [ok |-> TRUE, v |-> [stream EXCEPT !.finished = TRUE]]
    ELSE [ok |-> TRUE, v |-> [stream EXCEPT !.buffer = Append(@, frame)]]

\* StreamedFrame::is_finished
is_finished(stream) == stream.finished

\* into_frame for Set: the buffer collected in order
RECURSIVE collect_set(_, _)
collect_set(buffer, out) ==
    IF buffer = <<>> THEN out
    ELSE collect_set(Tail(buffer), set_insert(out, Head(buffer)))

\* into_frame for Map: the buffer paired off in FIFO order
RECURSIVE collect_map(_, _)
collect_map(buffer, out) ==
    IF Len(buffer) < 2 THEN out
    ELSE collect_map(Drop(buffer, 2), map_insert(out, buffer[1], buffer[2]))

\* into_frame for BlobString: the ChunkedString payloads concatenated
RECURSIVE concat_chunks(_)
concat_chunks(buffer) ==
    IF buffer = <<>> THEN <<>>
    ELSE Head(buffer).data \o concat_chunks(Tail(buffer))

\* StreamedFrame::into_frame: the aggregate keeps the attributes of the header
into_frame(stream) ==
    LET fail == [ok |-> FALSE, v |-> BaseFrame("None")]
        done(frame) == [ok |-> TRUE, v |-> [frame EXCEPT !.attributes = stream.attributes]]
    IN IF ~stream.finished THEN fail
       ELSE CASE stream.kind = "Array" -> done(ItemsFrame("Array", stream.buffer))
              [] stream.kind = "Set" ->
                    done(ItemsFrame("Set", collect_set(stream.buffer, <<>>)))
              [] stream.kind = "Map" ->
                    IF Len(stream.buffer) % 2 # 0 THEN fail
                    ELSE done(ItemsFrame("Map", collect_map(stream.buffer, <<>>)))
              [] stream.kind = "BlobString" ->
                    IF \E i \in 1..Len(stream.buffer) :
                          stream.buffer[i].kind # "ChunkedString"
                    THEN fail
                    ELSE done(DataFrame("BlobString", concat_chunks(stream.buffer)))
              [] OTHER -> fail

(***************************************************************************)
(* The parsers.  Each takes the remaining input and returns an IResult.    *)
(* Bind evaluates x once and hands its value to F; Then is the `?` of the  *)
(* parsers: whatever is not Ok is returned as it is.                       *)
(***************************************************************************)
Bind(x, F(_)) == CHOOSE y \in {F(v) : v \in {x}} : TRUE
Then(r, F(_)) == Bind(r, LAMBDA v : IF v.t # "Ok" THEN v ELSE F(v))

d_read_to_crlf(input) == take_until_then(input, CRLF, 2)

\* the line handed on without the str::from_utf8 check
d_read_to_crlf_s_unchecked(input) == d_read_to_crlf(input)

d_read_to_crlf_s(input) ==
    Then(d_read_to_crlf(input), LAMBDA r :
        IF from_utf8_ok(r.v) THEN r ELSE Error("from_utf8"))

d_read_prefix_len(input) ==
    Then(d_read_to_crlf_s(input), LAMBDA r :
        Bind(to_usize(r.v), LAMBDA n :
            IF n.ok THEN Ok(r.rest, n.v) ELSE Error("to_usize")))

d_read_prefix_len_signed(input) ==
    Then(d_read_to_crlf_s(input), LAMBDA r :
        Bind(to_isize(r.v), LAMBDA n :
            IF n.ok THEN Ok(r.rest, n.v) ELSE Error("to_isize")))

\* an unknown prefix byte taken for a frame that is not there yet
d_frame_type_lenient(input) ==
    Then(be_u8(input), LAMBDA r :
        IF from_byte(r.v) = "None" THEN Incomplete
        ELSE Ok(r.rest, from_byte(r.v)))

d_frame_type(input) ==
    Then(be_u8(input), LAMBDA r :
        IF from_byte(r.v) = "None" THEN Error("frame_type")
        ELSE Ok(r.rest, from_byte(r.v)))

d_parse_simplestring(input) ==
    Then(d_read_to_crlf_s(input), LAMBDA r : Ok(r.rest, DataFrame("SimpleString", r.v)))

d_parse_simpleerror(input) ==
    Then(d_read_to_crlf_s(input), LAMBDA r : Ok(r.rest, DataFrame("SimpleError", r.v)))

d_parse_number(input) ==
    Then(d_read_to_crlf_s(input), LAMBDA r :
        Bind(to_i64(r.v), LAMBDA n :
            IF n.ok THEN Ok(r.rest, NumFrame("Number", n.v)) ELSE Error("to_i64")))

d_parse_double(input) ==
    Then(d_read_to_crlf_s(input), LAMBDA r :
        Bind(to_f64(r.v), LAMBDA n :
            IF n.ok
            THEN Ok(r.rest, [BaseFrame("Double") EXCEPT
                                 !.aux = n.class, !.num = n.num, !.exp = n.exp])
            ELSE Error("to_f64")))

d_parse_boolean(input) ==
    Then(d_read_to_crlf_s(input), LAMBDA r :
        Bind(to_bool(r.v), LAMBDA n :
            IF n.ok THEN Ok(r.rest, NumFrame("Boolean", n.v)) ELSE Error("to_bool")))

d_parse_null(input) ==
    Then(d_read_to_crlf_s(input), LAMBDA r : Ok(r.rest, BaseFrame("Null")))

d_parse_blobstring(input, len) ==
    Then(take_then(input, len, 2), LAMBDA r : Ok(r.rest, DataFrame("BlobString", r.v)))

d_parse_bloberror(input) ==
    Then(d_read_prefix_len(input), LAMBDA l :
        Then(take_then(l.rest, l.v, 2), LAMBDA r :
            Ok(r.rest, DataFrame("BlobError", r.v))))

\* the declared length taken whole as the payload length
d_parse_verbatimstring_whole_len(input) ==
    Then(d_read_prefix_len(input), LAMBDA l :
        Then(take_then(l.rest, 3, 1), LAMBDA f :
            IF ~from_utf8_ok(f.v) THEN Error("from_utf8")
            ELSE Bind(to_verbatimstring_format(f.v), LAMBDA format :
                IF ~format.ok THEN Error("to_verbatimstring_format")
                ELSE Then(take_then(f.rest, l.v, 2), LAMBDA r :
                        Ok(r.rest, [DataFrame("VerbatimString", r.v)
                                        EXCEPT !.aux = format.v])))))

\* len - 4 on usize: with overflow checks a len below 4 panics; without them it
\* wraps to a length no input has, and nom_take reports Incomplete
d_parse_verbatimstring(input) ==
    Then(d_read_prefix_len(input), LAMBDA l :
        Then(take_then(l.rest, 3, 1), LAMBDA f :
            IF ~from_utf8_ok(f.v) THEN Error("from_utf8")
            ELSE Bind(to_verbatimstring_format(f.v), LAMBDA format :
                IF ~format.ok THEN Error("to_verbatimstring_format")
                ELSE IF l.v < 4
                THEN IF profile = "debug" THEN Panic ELSE Incomplete
                ELSE Then(take_then(f.rest, l.v - 4, 2), LAMBDA r :
                        Ok(r.rest, [DataFrame("VerbatimString", r.v)
                                        EXCEPT !.aux = format.v])))))

d_parse_bignumber(input) ==
    Then(d_read_to_crlf(input), LAMBDA r : Ok(r.rest, DataFrame("BigNumber", r.v)))

\* nom_take_until(pat) then nom_take(1), the bytes checked by str::from_utf8
take_until_s(input, pat) ==
    Then(take_until_then(input, pat, 1), LAMBDA r :
        IF from_utf8_ok(r.v) THEN r ELSE Error("from_utf8"))

NoAuth == [some |-> FALSE, username |-> <<>>, password |-> <<>>]

hello_frame(rest, version, auth) ==
    Bind(to_hello(version, auth), LAMBDA hello :
        IF hello.ok THEN Ok(rest, hello.v) ELSE Error("parse_hello"))

\* nom_opt(p): an Error of p becomes None; Incomplete is passed on
d_parse_hello(input) ==
    Then(take_until_s(input, HELLO), LAMBDA h :
        Then(be_u8(h.rest), LAMBDA version :
            Bind(take_until_s(version.rest, AUTH), LAMBDA a :
                IF a.t \in {"Incomplete", "Panic"} THEN a
                ELSE IF a.t = "Error" THEN hello_frame(version.rest, version.v, NoAuth)
                ELSE Then(take_until_s(a.rest, EMPTY_SPACE), LAMBDA username :
                        Then(take_until_s(username.rest, EMPTY_SPACE), LAMBDA password :
                            hello_frame(password.rest, version.v,
                                        [some |-> TRUE,
                                         username |-> username.v,
                                         password |-> password.v]))))))

RECURSIVE d_parse_frame_or_attribute(_), nom_count_frames(_, _, _)

\* nom_count(nom_map_res(d_parse_frame_or_attribute, unwrap_complete_frame), n)
nom_count_frames(input, n, acc) ==
    IF n = 0 THEN Ok(input, acc)
    ELSE Then(d_parse_frame_or_attribute(input), LAMBDA r :
            Bind(unwrap_complete_frame(r.v), LAMBDA f :
                IF ~f.ok THEN Error("unwrap_complete_frame")
                ELSE nom_count_frames(r.rest, n - 1, Append(acc, f.v))))

\* the children collected last to first
d_parse_array_frames_reversed(input, len) ==
    Then(nom_count_frames(input, len, <<>>), LAMBDA r :
        Ok(r.rest, [i \in 1..Len(r.v) |-> r.v[Len(r.v) + 1 - i]]))

d_parse_array_frames(input, len) == nom_count_frames(input, len, <<>>)

d_parse_kv_pairs(input, len) ==
    Bind(usize_mul2(len), LAMBDA n :
        IF ~n.ok /\ profile = "debug" THEN Panic
        ELSE Then(nom_count_frames(input, n.v, <<>>), LAMBDA r :
                Bind(to_map(r.v), LAMBDA m :
                    IF m.ok THEN Ok(r.rest, m.v) ELSE Error("to_map"))))

d_parse_array(input, len) ==
    Then(d_parse_array_frames(input, len), LAMBDA r : Ok(r.rest, ItemsFrame("Array", r.v)))

d_parse_push(input) ==
    Then(d_read_prefix_len(input), LAMBDA l :
        Then(d_parse_array_frames(l.rest, l.v), LAMBDA r :
            Ok(r.rest, ItemsFrame("Push", r.v))))

d_parse_set(input, len) ==
    Then(d_parse_array_frames(input, len), LAMBDA r :
        Bind(to_set(r.v), LAMBDA set :
            IF set.ok THEN Ok(r.rest, ItemsFrame("Set", set.v)) ELSE Error("to_set")))

d_parse_map(input, len) ==
    Then(d_parse_kv_pairs(input, len), LAMBDA r : Ok(r.rest, ItemsFrame("Map", r.v)))

d_parse_attribute(input) ==
    Then(d_read_prefix_len(input), LAMBDA l : d_parse_kv_pairs(l.rest, l.v))

\* the streaming header returned without consuming its prefix line
d_check_streaming_unconsumed(input, kind) ==
    Then(d_read_prefix_len_signed(input), LAMBDA l :
        IF l.v = -1 THEN Ok(input, Streaming(StreamedFrame_new(kind)))
        ELSE Bind(isize_to_usize(l.v), LAMBDA len :
            IF ~len.ok THEN Error("isize_to_usize")
            ELSE Then(CASE kind = "Array" -> d_parse_array(l.rest, len.v)
                        [] kind = "Set" -> d_parse_set(l.rest, len.v)
                        [] kind = "Map" -> d_parse_map(l.rest, len.v)
                        [] kind = "BlobString" -> d_parse_blobstring(l.rest, len.v)
                        [] OTHER -> Error("check_streaming"),
                      LAMBDA r : Ok(r.rest, Complete(r.v)))))

d_check_streaming(input, kind) ==
    Then(d_read_prefix_len_signed(input), LAMBDA l :
        IF l.v = -1 THEN Ok(l.rest, Streaming(StreamedFrame_new(kind)))
        ELSE Bind(isize_to_usize(l.v), LAMBDA len :
            IF ~len.ok THEN Error("isize_to_usize")
            ELSE Then(CASE kind = "Array" -> d_parse_array(l.rest, len.v)
                        [] kind = "Set" -> d_parse_set(l.rest, len.v)
                        [] kind = "Map" -> d_parse_map(l.rest, len.v)
                        [] kind = "BlobString" -> d_parse_blobstring(l.rest, len.v)
                        [] OTHER -> Error("check_streaming"),
                      LAMBDA r : Ok(r.rest, Complete(r.v)))))

\* the chunk read up to the next CRLF, whatever length its prefix gives
d_parse_chunked_string_by_line(input) ==
    Then(d_read_prefix_len(input), LAMBDA l :
        IF l.v = 0 THEN Ok(l.rest, Complete(new_end_stream))
        ELSE Then(d_read_to_crlf(l.rest), LAMBDA r :
                Ok(r.rest, Complete(DataFrame("ChunkedString", r.v)))))

d_parse_chunked_string(input) ==
    Then(d_read_prefix_len(input), LAMBDA l :
        IF l.v = 0 THEN Ok(l.rest, Complete(new_end_stream))
        ELSE Then(take_then(l.rest, l.v, 2), LAMBDA r :
                Ok(r.rest, Complete(DataFrame("ChunkedString", r.v)))))

d_return_end_stream(input) ==
    Then(d_read_to_crlf(input), LAMBDA r : Ok(r.rest, Complete(new_end_stream)))

\* nom_map(p, map_complete_frame)
nom_map_complete(parsed) ==
    Then(parsed, LAMBDA r : Ok(r.rest, map_complete_frame(r.v)))

d_parse_non_attribute_frame(input, kind) ==
    CASE kind \in {"Array", "BlobString", "Map", "Set"} -> d_check_streaming(input, kind)
      [] kind = "SimpleString" -> nom_map_complete(d_parse_simplestring(input))
      [] kind = "SimpleError" -> nom_map_complete(d_parse_simpleerror(input))
      [] kind = "Number" -> nom_map_complete(d_parse_number(input))
      [] kind = "Null" -> nom_map_complete(d_parse_null(input))
      [] kind = "Double" -> nom_map_complete(d_parse_double(input))
      [] kind = "Boolean" -> nom_map_complete(d_parse_boolean(input))
      [] kind = "BlobError" -> nom_map_complete(d_parse_bloberror(input))
      [] kind = "VerbatimString" -> nom_map_complete(d_parse_verbatimstring(input))
      [] kind = "Push" -> nom_map_complete(d_parse_push(input))
      [] kind = "BigNumber" -> nom_map_complete(d_parse_bignumber(input))
      [] kind = "Hello" -> nom_map_complete(d_parse_hello(input))
      [] kind = "ChunkedString" -> d_parse_chunked_string(input)
      [] kind = "EndStream" -> d_return_end_stream(input)
      [] kind = "Attribute" -> Error("parse_non_attribute_frame")

\* the attribute map parsed and thrown away
d_parse_attribute_and_frame_dropped(input) ==
    Then(d_parse_attribute(input), LAMBDA attributes :
        Then(d_frame_type(attributes.rest), LAMBDA kind :
            d_parse_non_attribute_frame(kind.rest, kind.v)))

\* a second attribute map accepted after the first, and attached in its place
d_parse_attribute_and_frame_nested(input) ==
    Then(d_parse_attribute(input), LAMBDA attributes :
        Then(d_parse_frame_or_attribute(attributes.rest), LAMBDA next_frame :
            Bind(attach_attributes(attributes.v, next_frame.v), LAMBDA frame :
                IF frame.ok THEN Ok(next_frame.rest, frame.v)
                ELSE Error("attach_attributes"))))

d_parse_attribute_and_frame(input) ==
    Then(d_parse_attribute(input), LAMBDA attributes :
        Then(d_frame_type(attributes.rest), LAMBDA kind :
            Then(d_parse_non_attribute_frame(kind.rest, kind.v), LAMBDA next_frame :
                Bind(attach_attributes(attributes.v, next_frame.v), LAMBDA frame :
                    IF frame.ok THEN Ok(next_frame.rest, frame.v)
                    ELSE Error("attach_attributes")))))

d_parse_frame_or_attribute(input) ==
    Then(d_frame_type(input), LAMBDA kind :
        IF kind.v = "Attribute" THEN d_parse_attribute_and_frame(kind.rest)
        ELSE d_parse_non_attribute_frame(kind.rest, kind.v))

(***************************************************************************)
(* The entry points: Result<Option<(frame, usize)>, RedisProtocolError>.   *)
(***************************************************************************)
Some(frame, n) == [t |-> "Some", frame |-> frame, n |-> n]
None == [t |-> "None"]
Err(id) == [t |-> "Err", id |-> id]
Panicked == [t |-> "Panic"]

\* the whole buffer reported as consumed
complete_decode_whole(input) ==
    Bind(d_parse_frame_or_attribute(input), LAMBDA r :
        CASE r.t = "Ok" ->
               Bind(into_complete_frame(r.v), LAMBDA frame :
                   IF frame.ok THEN Some(frame.v, Len(input))
                   ELSE Err("into_complete_frame"))
          [] r.t = "Incomplete" -> None
          [] r.t = "Error" -> Err(r.id)
          [] r.t = "Panic" -> Panicked)

\* complete::decode
complete_decode(input) ==
    Bind(d_parse_frame_or_attribute(input), LAMBDA r :
        CASE r.t = "Ok" ->
               Bind(into_complete_frame(r.v), LAMBDA frame :
                   IF frame.ok THEN Some(frame.v, Len(input) - Len(r.rest))
                   ELSE Err("into_complete_frame"))
          [] r.t = "Incomplete" -> None
          [] r.t = "Error" -> Err(r.id)
          [] r.t = "Panic" -> Panicked)

\* streaming::decode
streaming_decode(input) ==
    Bind(d_parse_frame_or_attribute(input), LAMBDA r :
        CASE r.t = "Ok" -> Some(r.v, Len(input) - Len(r.rest))
          [] r.t = "Incomplete" -> None
          [] r.t = "Error" -> Err(r.id)
          [] r.t = "Panic" -> Panicked)

\* Ok(Some(frame)) of RedisCodec::decode
Returned(frame) == [t |-> "Some", frame |-> frame]

NestedStream == "Cannot start a stream while already inside a stream."

\* the codec accepts a header while a stream is open and restarts the stream
codec_decode_restarting(stream, input) ==
    IF input = <<>> THEN [decoder_stream |-> stream, src |-> input, ret |-> None]
    ELSE Bind(streaming_decode(input), LAMBDA d :
        IF d.t # "Some" THEN [decoder_stream |-> stream, src |-> input, ret |-> d]
        ELSE IF is_streaming(d.frame)
        THEN [decoder_stream |-> [some |-> TRUE, v |-> d.frame.streamed],
              src |-> Drop(input, d.n), ret |-> None]
        ELSE IF stream.some
        THEN Bind(add_frame(stream.v, d.frame.frame).v, LAMBDA added :
                IF ~is_finished(added)
                THEN [decoder_stream |-> [some |-> TRUE, v |-> added],
                      src |-> Drop(input, d.n), ret |-> None]
                ELSE Bind(into_frame(added), LAMBDA out :
                        IF out.ok
                        THEN [decoder_stream |-> [some |-> FALSE],
                              src |-> Drop(input, d.n), ret |-> Returned(out.v)]
                        ELSE [decoder_stream |-> [some |-> TRUE, v |-> added],
                              src |-> Drop(input, d.n), ret |-> Err("into_frame")]))
        ELSE [decoder_stream |-> [some |-> FALSE],
              src |-> Drop(input, d.n), ret |-> Returned(d.frame.frame)])

\* the codec hands every buffered frame to the caller as well
codec_decode_surfacing(stream, input) ==
    IF input = <<>> THEN [decoder_stream |-> stream, src |-> input, ret |-> None]
    ELSE Bind(streaming_decode(input), LAMBDA d :
        IF d.t # "Some" THEN [decoder_stream |-> stream, src |-> input, ret |-> d]
        ELSE IF stream.some /\ is_streaming(d.frame)
        THEN [decoder_stream |-> stream, src |-> Drop(input, d.n), ret |-> Err(NestedStream)]
        ELSE IF stream.some
        THEN Bind(add_frame(stream.v, d.frame.frame).v, LAMBDA added :
                [decoder_stream |-> [some |-> TRUE, v |-> added],
                 src |-> Drop(input, d.n), ret |-> Returned(d.frame.frame)])
        ELSE IF is_streaming(d.frame)
        THEN [decoder_stream |-> [some |-> TRUE, v |-> d.frame.streamed],
              src |-> Drop(input, d.n), ret |-> None]
        ELSE [decoder_stream |-> [some |-> FALSE],
              src |-> Drop(input, d.n), ret |-> Returned(d.frame.frame)])

\* RedisCodec::decode(&mut self, src): the new decoder_stream, what is left of
\* src, and the value returned
codec_decode(stream, input) ==
    IF input = <<>> THEN [decoder_stream |-> stream, src |-> input, ret |-> None]
    ELSE Bind(streaming_decode(input), LAMBDA d :
        \* decode(&src)? returns the Err; Ok(None) is returned as Ok(None)
        IF d.t # "Some" THEN [decoder_stream |-> stream, src |-> input, ret |-> d]
        \* src.split_to(amt) comes first
        ELSE IF stream.some /\ is_streaming(d.frame)
        THEN [decoder_stream |-> stream, src |-> Drop(input, d.n), ret |-> Err(NestedStream)]
        ELSE IF stream.some
        THEN Bind(add_frame(stream.v, d.frame.frame).v, LAMBDA added :
                IF ~is_finished(added)
                THEN [decoder_stream |-> [some |-> TRUE, v |-> added],
                      src |-> Drop(input, d.n), ret |-> None]
                ELSE Bind(into_frame(added), LAMBDA out :
                        IF out.ok
                        \* result.is_some(): decoder_stream.take()
                        THEN [decoder_stream |-> [some |-> FALSE],
                              src |-> Drop(input, d.n), ret |-> Returned(out.v)]
                        \* into_frame()? returns before the take()
                        ELSE [decoder_stream |-> [some |-> TRUE, v |-> added],
                              src |-> Drop(input, d.n), ret |-> Err("into_frame")]))
        ELSE IF is_streaming(d.frame)
        THEN [decoder_stream |-> [some |-> TRUE, v |-> d.frame.streamed],
              src |-> Drop(input, d.n), ret |-> None]
        ELSE [decoder_stream |-> [some |-> FALSE],
              src |-> Drop(input, d.n), ret |-> Returned(d.frame.frame)])

(***************************************************************************)
(* The wire pieces the transport delivers: prefix lines, whole small       *)
(* frames, payload bytes and junk.  Buffers are cut at every byte by the   *)
(* properties, so a piece boundary is no assumption on how reads split.    *)
(***************************************************************************)
Line(prefix, text) == <<prefix>> \o text \o CRLF

AttributeMap1 == Line("|", <<"1">>) \o Line("+", <<"k">>) \o Line(":", <<"7">>)

StreamingHeaders ==
    {Line("*", <<"?">>), Line("~", <<"?">>), Line("%", <<"?">>), Line("$", <<"?">>)}

Pieces ==
    StreamingHeaders \cup
    {Line("*", <<"1">>), Line("*", <<"2">>), Line("%", <<"1">>), Line("~", <<"1">>),
     Line(">", <<"1">>), Line("|", <<"0">>), AttributeMap1, Line("$", <<"1">>),
     Line(":", <<"1">>), Line("+", <<"a">>), Line("_", <<>>), Line(".", <<>>),
     Line(";", <<"0">>), Line(";", <<"1">>), <<"a">> \o CRLF, <<"x">>, <<CR>>}

NoCall == [call |-> "none", r |-> None]

NoStream == [header |-> "", children |-> <<>>]

Profiles == {"debug", "release"}

Init ==
    /\ buf = <<>>
    /\ result = NoCall
    /\ fed = 0
    /\ tail = 0
    /\ sent = NoStream
    /\ bytes = <<>>
    /\ streamed = [some |-> FALSE]
    /\ log = <<>>
    /\ src = <<>>
    /\ decoder_stream = [some |-> FALSE]
    /\ ret = None
    /\ profile \in Profiles

\* the transport appends the next piece to the buffer
Recv(p) ==
    LET open == streaming_decode(buf).t = "None"
    IN /\ fed < MaxFeed
       /\ open \/ tail < MaxTail
       /\ buf' = buf \o p
       /\ fed' = fed + 1
       /\ tail' = IF open THEN tail ELSE tail + 1
       /\ result' = NoCall
       /\ UNCHANGED <<sent, bytes, streamed, log, src, decoder_stream, ret, profile>>

DecodeComplete ==
    /\ result.call # "complete"
    /\ result' = [call |-> "complete", r |-> complete_decode(buf)]
    /\ UNCHANGED <<buf, fed, tail, sent, bytes, streamed, log, src, decoder_stream, ret, profile>>

DecodeStreaming ==
    /\ result.call # "streaming"
    /\ result' = [call |-> "streaming", r |-> streaming_decode(buf)]
    /\ UNCHANGED <<buf, fed, tail, sent, bytes, streamed, log, src, decoder_stream, ret, profile>>

Next ==
    \/ \E p \in Pieces : Recv(p)
    \/ DecodeComplete
    \/ DecodeStreaming

Spec == Init /\ [][Next]_vars

(***************************************************************************)
(* The streaming tests (should_decode_streaming_string / _array / _set /    *)
(* _map): a whole stream is written into bytes; each step calls            *)
(* stream_decode, drops the consumed bytes, and hands the frame to the      *)
(* StreamedFrame taken from the header; into_frame is called once          *)
(* is_finished holds.                                                      *)
(***************************************************************************)
\* child frames of one streamed aggregate
MaxChildren == 4
\* chunks of one streamed blob
MaxChunks == 3

DigitChars == <<"0", "1", "2", "3", "4", "5", "6", "7", "8", "9">>

\* the decimal text of a length prefix
RECURSIVE DecimalText(_)
DecimalText(n) ==
    IF n < 10 THEN <<DigitChars[n + 1]>>
    ELSE DecimalText(n \div 10) \o <<DigitChars[(n % 10) + 1]>>

\* `;<n>\r\n<n bytes>\r\n`
Chunk(payload) == Line(";", DecimalText(Len(payload))) \o payload \o CRLF

RECURSIVE Flatten(_)
Flatten(pieces) ==
    IF pieces = <<>> THEN <<>> ELSE Head(pieces) \o Flatten(Tail(pieces))

\* the encodings of the children an aggregate stream carries
StreamChildren ==
    {Line(":", <<"1">>), Line(":", <<"2">>), Line("+", <<"a">>), Line("+", <<"b">>),
     Line("_", <<>>), Line("*", <<"1">>) \o Line(":", <<"1">>),
     AttributeMap1 \o Line("+", <<"a">>)}

\* the payloads of the chunks a blob stream carries
ChunkPayloads == {<<"a">>, <<"a", "b">>, <<CR, LF>>, <<";", "0", CR, LF>>}

AggregateHeaders == {"*", "~", "%"}

\* header line, children (chunks for a blob), terminator
StreamWire(s) ==
    Line(s.header, <<"?">>)
    \o (IF s.header = "$"
        THEN Flatten([i \in 1..Len(s.children) |-> Chunk(s.children[i])])
             \o Line(";", <<"0">>)
        ELSE Flatten(s.children) \o Line(".", <<>>))

StreamInit ==
    /\ \/ \E h \in AggregateHeaders, n \in 0..MaxChildren :
             \E cs \in [1..n -> StreamChildren] : sent = [header |-> h, children |-> cs]
       \/ \E n \in 0..MaxChunks :
             \E cs \in [1..n -> ChunkPayloads] : sent = [header |-> "$", children |-> cs]
    /\ bytes = StreamWire(sent)
    /\ buf = bytes
    /\ streamed = [some |-> FALSE]
    /\ log = <<>>
    /\ ret = None
    /\ result = NoCall
    /\ fed = 0
    /\ tail = 0
    /\ src = <<>>
    /\ decoder_stream = [some |-> FALSE]
    /\ profile = "release"

\* stream_decode(&bytes).unwrap().unwrap(); bytes.split_to(amt); the first
\* frame gives the StreamedFrame, every later one goes to add_frame
StreamDecode ==
    /\ bytes # <<>>
    /\ ret = None
    /\ IF log = <<>> THEN TRUE ELSE log[Len(log)].t = "Some"
    /\ \E r \in {streaming_decode(bytes)} :
          /\ log' = Append(log, r)
          /\ IF r.t # "Some" THEN UNCHANGED <<bytes, streamed>>
             ELSE /\ bytes' = Drop(bytes, r.n)
                  /\ streamed' =
                        IF is_streaming(r.frame)
                        THEN IF streamed.some THEN streamed
                             ELSE [some |-> TRUE, v |-> into_streaming_frame(r.frame).v]
                        ELSE IF streamed.some
                        THEN [some |-> TRUE,
                              v |-> add_frame(streamed.v, into_complete_frame(r.frame).v).v]
                        ELSE streamed
    /\ UNCHANGED <<buf, result, fed, tail, sent, src, decoder_stream, ret, profile>>

\* assert!(streamed.is_finished()); streamed.into_frame()
StreamIntoFrame ==
    /\ streamed.some
    /\ is_finished(streamed.v)
    /\ ret = None
    /\ \E out \in {into_frame(streamed.v)} :
          ret' = IF out.ok THEN Returned(out.v) ELSE Err("into_frame")
    /\ UNCHANGED <<buf, result, fed, tail, sent, bytes, streamed, log, src,
                   decoder_stream, profile>>

StreamNext ==
    \/ StreamDecode
    \/ StreamIntoFrame

StreamSpec == StreamInit /\ [][StreamNext]_vars

(***************************************************************************)
(* The documented tokio codec (RedisCodec): the transport appends to src,  *)
(* and RedisCodec::decode is called on it again and again.                 *)
(***************************************************************************)
\* wire pieces appended to src
MaxCodecFeed == 4

CodecPieces ==
    {Line("*", <<"?">>), Line("%", <<"?">>), Line("$", <<"?">>),
     Line(":", <<"1">>), Line("+", <<"a">>), Chunk(<<"a">>),
     Line(".", <<>>), Line(";", <<"0">>), Line("|", <<"0">>), <<"+">>, <<"x">>}

CodecInit ==
    /\ src = <<>>
    /\ decoder_stream = [some |-> FALSE]
    /\ ret = None
    /\ fed = 0
    /\ buf = <<>>
    /\ result = NoCall
    /\ tail = 0
    /\ sent = NoStream
    /\ bytes = <<>>
    /\ streamed = [some |-> FALSE]
    /\ log = <<>>
    /\ profile = "release"

\* the transport reads more bytes into src
Feed(p) ==
    /\ fed < MaxCodecFeed
    /\ src' = src \o p
    /\ fed' = fed + 1
    /\ UNCHANGED <<buf, result, tail, sent, bytes, streamed, log, decoder_stream, ret,
                   profile>>

\* one call of RedisCodec::decode
CodecDecode ==
    /\ \E o \in {codec_decode(decoder_stream, src)} :
          /\ decoder_stream' = o.decoder_stream
          /\ src' = o.src
          /\ ret' = o.ret
    /\ UNCHANGED <<buf, result, fed, tail, sent, bytes, streamed, log, profile>>

CodecNext ==
    \/ \E p \in CodecPieces : Feed(p)
    \/ CodecDecode

CodecSpec == CodecInit /\ [][CodecNext]_vars

(***************************************************************************)
(* The decoders on single wire forms (the table of decode tests): the      *)
(* buffer is a wire form, whole or cut short, and either decoder is called *)
(* on it.                                                                  *)
(***************************************************************************)
\* stream terminators at top level and as children of fixed-length aggregates
TerminatorWires ==
    {Line(".", <<>>), Line(";", <<"0">>),
     Line("*", <<"1">>) \o Line(".", <<>>),
     Line("*", <<"1">>) \o Line(";", <<"0">>),
     Line("*", <<"2">>) \o Line(":", <<"1">>) \o Line(".", <<>>),
     Line("~", <<"1">>) \o Line(".", <<>>),
     Line("%", <<"1">>) \o Line("+", <<"a">>) \o Line(".", <<>>),
     Line(">", <<"1">>) \o Chunk(<<"a">>),
     Line("*", <<"1">>) \o Line("*", <<"1">>) \o Line(";", <<"0">>),
     Line("*", <<"1">>) \o Line(":", <<"1">>)}

\* length-prefixed payloads: prefix line and payload, then two trailing bytes
PayloadHeads ==
    {Line("$", <<"1">>) \o <<"a">>, Line("$", <<"0">>), Line("!", <<"1">>) \o <<"a">>,
     Line("=", <<"5">>) \o <<"t", "x", "t", ":", "a">>, Line(";", <<"1">>) \o <<"a">>}

Trailers == {CRLF, <<"X", "Y">>, <<CR, "X">>, <<"X", LF>>}

BlobTrailerWires == {h \o t : h \in PayloadHeads, t \in Trailers}

\* prefix lines whose length field is `?`, a decimal number, or neither
LengthFields ==
    {<<"?">>, <<"-", "1">>, <<"-", "0", "1">>, <<"-", "2">>, <<"0">>, <<"+", "0">>,
     <<"?", "?">>, <<"1", "?">>, <<>>}

StreamableBytes == {"*", "~", "%", "$"}

SizedOnlyBytes == {">", "!", "=", "|", ";"}

LengthFieldWires ==
    {Line(b, f) : b \in StreamableBytes \cup SizedOnlyBytes, f \in LengthFields}

\* Double payloads: numbers, the not-a-number name in several letter cases,
\* and texts that are no number
DoubleNumbers ==
    {<<"i", "n", "f">>, <<"-", "i", "n", "f">>, <<"1", ".", "5">>, <<"-", "1", ".", "5">>,
     <<"0">>, <<"4", "2">>, <<".", "5">>, <<"1", "e", "2">>}

DoubleNans == {<<"n", "a", "n">>, <<"N", "a", "N">>, <<"N", "A", "N">>, <<"-", "n", "a", "n">>}

DoubleJunk ==
    {<<"f", "o", "o">>, <<>>, <<".">>, <<"-">>, <<"1", ".", "2", ".", "3">>, <<"1", "e">>,
     <<"i", "n">>, <<"1", " ">>}

DoubleWires == {Line(",", t) : t \in DoubleNumbers \cup DoubleNans \cup DoubleJunk}

\* VerbatimString frames whose declared length cannot hold the 4-byte format prefix
ShortLens == {<<"0">>, <<"1">>, <<"2">>, <<"3">>}

ShortVerbatimWires ==
    {Line("=", l) \o <<"t", "x", "t", ":">> \o CRLF : l \in ShortLens}
    \cup {Line("=", l) \o <<"m", "k", "d", ":", "a">> \o CRLF : l \in ShortLens}
    \cup {Line("=", <<"3">>) \o <<"t", "x", "t">> \o CRLF,
          Line("=", <<"0">>) \o CRLF \o Line("+", <<"a">>)}

\* VerbatimString frames of declared length 4 or more
VerbatimTags == {<<"t", "x", "t">>, <<"m", "k", "d">>, <<"a", "b", "c">>, <<"T", "X", "T">>}

VerbatimData == {<<>>, <<"a">>, <<"a", ":", "b">>, <<CR, LF>>, <<"S", "o", "m", "e", " ", "s", "t", "r", "i", "n", "g">>}

VerbatimWire(tag, data) ==
    Line("=", DecimalText(Len(data) + 4)) \o tag \o <<":">> \o data \o CRLF

VerbatimWires == {VerbatimWire(tag, data) : tag \in VerbatimTags, data \in VerbatimData}

\* Map and attribute-map lengths at the edges of the 64-bit integers: 2^63 - 1,
\* 2^63, 2^63 + 1, 2^64 - 1 and 2^64
Successor(text) ==
    Take(text, Len(text) - 1) \o DecimalText(DigitVal(text[Len(text)]) + 1)

WideLens ==
    {IsizeMaxText, IsizeMinText, Successor(IsizeMinText), UsizeMaxText, Successor(UsizeMaxText)}

WideWires ==
    {Line(b, l) \o Line("+", <<"a">>) \o Line(":", <<"1">>) \o Line(":", <<"2">>) :
        b \in {"%", "|"}, l \in WideLens}

\* Hello frames: the HELLO token (alone, or behind the prefix byte H), the
\* version as one raw byte or as a space and a digit, then nothing or an AUTH part
HelloHeads == {HELLO, <<"H">> \o HELLO}

ValidVersions == {<<"x02">>, <<"x03">>, <<" ", "2">>, <<" ", "3">>}

OtherVersions == {<<"x04">>, <<"x00">>, <<" ", "4">>, <<" ", "1">>}

AuthPart == <<" ">> \o AUTH \o <<" ", "u", " ", "p">>

HelloTails == {CRLF, AuthPart \o CRLF, AuthPart \o <<" ">> \o CRLF}

HelloWires ==
    {h \o v \o t : h \in HelloHeads, v \in ValidVersions \cup OtherVersions, t \in HelloTails}

\* Maps and attribute maps with distinct keys, as lists of (key, value) pairs
MapEntries ==
    {<<[k |-> "a", v |-> 1]>>,
     <<[k |-> "a", v |-> 1], [k |-> "b", v |-> 2]>>,
     <<[k |-> "b", v |-> 1], [k |-> "a", v |-> 2]>>,
     <<[k |-> "c", v |-> 3], [k |-> "a", v |-> 1], [k |-> "b", v |-> 2]>>}

EntryWire(e) == Line("+", <<e.k>>) \o Line(":", DecimalText(e.v))

\* k1, v1, ..., kn, vn as frames, in the order of the list
RECURSIVE EntryFrames(_)
EntryFrames(es) ==
    IF es = <<>> THEN <<>>
    ELSE <<DataFrame("SimpleString", <<Head(es).k>>), NumFrame("Number", Head(es).v)>>
             \o EntryFrames(Tail(es))

MapWire(es) ==
    Line("%", DecimalText(Len(es))) \o Flatten([i \in 1..Len(es) |-> EntryWire(es[i])])

AttributeWire(es) ==
    Line("|", DecimalText(Len(es))) \o Flatten([i \in 1..Len(es) |-> EntryWire(es[i])])
        \o Line("#", <<"t">>)

MapWires == {MapWire(es) : es \in MapEntries} \cup {AttributeWire(es) : es \in MapEntries}

\* an attribute map with nothing behind it, and one with a second attribute map
\* and a frame behind it
AttributeEntries == MapEntries \cup {<<>>}

AttributeOnly(es) ==
    Line("|", DecimalText(Len(es))) \o Flatten([i \in 1..Len(es) |-> EntryWire(es[i])])

SecondAttributes == {<<>>, <<[k |-> "z", v |-> 9]>>}

DoubleAttributeWire(es, more) == AttributeOnly(es) \o AttributeOnly(more) \o Line("#", <<"t">>)

AttributeOnlyWires ==
    {AttributeOnly(es) : es \in AttributeEntries}
    \cup {DoubleAttributeWire(es, more) : es \in AttributeEntries, more \in SecondAttributes}

\* lines and payloads holding a byte that is not valid UTF-8
TextBytes == {"+", "-", ":", ",", "#", "_"}

InvalidTexts == {<<InvalidUtf8Byte>>, <<"1", InvalidUtf8Byte>>, <<InvalidUtf8Byte, "t">>}

InvalidLineWires ==
    {Line(b, t) : b \in TextBytes \cup StreamableBytes \cup SizedOnlyBytes, t \in InvalidTexts}

BinaryPayloads == {<<InvalidUtf8Byte>>, <<"a", InvalidUtf8Byte, "b">>}

BinaryWire(b, payload) ==
    IF b = "(" THEN Line("(", payload)
    ELSE Line(b, DecimalText(Len(payload))) \o payload \o CRLF

BinaryBytes == {"$", "!", "(", ";"}

BinaryWires == {BinaryWire(b, payload) : b \in BinaryBytes, payload \in BinaryPayloads}

\* Arrays and Pushes, as lists of the wire forms of their children
Foo == <<"F", "o", "o">>

Bar == <<"B", "a", "r">>

BlobWire(payload) == Line("$", DecimalText(Len(payload))) \o payload \o CRLF

ChildLists ==
    {<<>>,
     <<Line(":", <<"1">>)>>,
     <<Line("+", Foo), Line("+", Bar)>>,
     <<BlobWire(Foo), Line("_", <<>>), BlobWire(Bar)>>,
     <<Line("*", <<"1">>) \o Line(":", <<"2">>), AttributeWire(<<[k |-> "a", v |-> 1]>>)>>,
     <<Line(":", <<"2">>), Line(">", <<"0">>), Line(":", <<"1">>)>>}

ArrayBytes == {"*", ">"}

ArrayWire(b, cs) == Line(b, DecimalText(Len(cs))) \o Flatten(cs)

ArrayWires == {ArrayWire(b, cs) : b \in ArrayBytes, cs \in ChildLists}

\* the Null and EndStream markers, bare and with bytes before the CRLF
MarkerTexts == {<<>>, <<"a">>, <<"a", "b", "c">>, <<" ">>, <<"0">>}

MarkerWires ==
    {Line(b, x) : b \in {"_", "."}, x \in MarkerTexts}
    \cup {Line(";", <<"0", "0">>), Line(";", <<"+", "0">>)}

\* Maps and attribute maps whose wire form repeats a key
RepeatedKeyEntries ==
    {<<[k |-> "a", v |-> 1], [k |-> "a", v |-> 2]>>,
     <<[k |-> "a", v |-> 1], [k |-> "b", v |-> 2], [k |-> "a", v |-> 3]>>,
     <<[k |-> "a", v |-> 3], [k |-> "a", v |-> 2], [k |-> "a", v |-> 1]>>,
     <<[k |-> "b", v |-> 1], [k |-> "a", v |-> 2], [k |-> "b", v |-> 3], [k |-> "a", v |-> 4]>>}

RepeatedKeyWires ==
    {MapWire(es) : es \in RepeatedKeyEntries} \cup {AttributeWire(es) : es \in RepeatedKeyEntries}

\* fixed-length aggregates with a streaming header as the first or the second
\* child, up to the header and with what could follow it
AggregateBytes == {"*", "~", "%", ">", "|"}

StreamChildPrefixes ==
    {Line(b, <<"2">>) \o before \o Line(h, <<"?">>) :
        b \in AggregateBytes, before \in {<<>>, Line(":", <<"1">>)}, h \in StreamableBytes}

StreamChildWires ==
    {p \o Line(":", <<"3">>) \o Line(".", <<>>) : p \in StreamChildPrefixes}

FrameWires ==
    TerminatorWires \cup BlobTrailerWires \cup LengthFieldWires \cup DoubleWires
        \cup ShortVerbatimWires \cup VerbatimWires \cup WideWires \cup HelloWires
        \cup MapWires \cup AttributeOnlyWires \cup InvalidLineWires \cup BinaryWires
        \cup ArrayWires \cup MarkerWires \cup RepeatedKeyWires \cup StreamChildWires

\* every wire form, whole and cut at every byte
FrameInputs == UNION {{Take(w, k) : k \in 0..Len(w)} : w \in FrameWires}

FrameInit ==
    /\ buf \in FrameInputs
    /\ profile \in Profiles
    /\ result = NoCall
    /\ fed = 0
    /\ tail = 0
    /\ sent = NoStream
    /\ bytes = <<>>
    /\ streamed = [some |-> FALSE]
    /\ log = <<>>
    /\ src = <<>>
    /\ decoder_stream = [some |-> FALSE]
    /\ ret = None

FrameNext ==
    \/ DecodeComplete
    \/ DecodeStreaming

FrameSpec == FrameInit /\ [][FrameNext]_vars

(***************************************************************************)
(* Properties of complete::decode and streaming::decode (Spec).            *)
(***************************************************************************)
CompleteCalled == result.call = "complete"
StreamingCalled == result.call = "streaming"

\* input starts with the prefix line of a streamed Array, Set, Map or BlobString
HeaderAt(input) ==
    /\ Len(input) >= 4
    /\ input[1] \in {"*", "~", "%", "$"}
    /\ SubSeq(input, 2, 4) = <<"?", CR, LF>>

\* C1: when complete::decode decodes the whole buffer B as one frame, both
\* decoders answer Ok(None) on every proper prefix of B, the empty one included.
C1_PrefixIncomplete ==
    (CompleteCalled /\ result.r.t = "Some" /\ result.r.n = Len(buf)) =>
        \A k \in 0..(Len(buf) - 1) :
            /\ complete_decode(Take(buf, k)) = None
            /\ streaming_decode(Take(buf, k)) = None

C1_Witness ==
    /\ CompleteCalled /\ result.r.t = "Some" /\ result.r.n = Len(buf)
    /\ result.r.frame.kind = "Array" /\ Len(result.r.frame.items) = 2

\* C2: a non-empty buffer whose first byte is no frame prefix is an Err for
\* both decoders, never Ok(None), whatever follows it.
C2_JunkPrefixIsError ==
    (result.call # "none" /\ buf # <<>> /\ buf[1] \notin LegalPrefixBytes) =>
        result.r.t = "Err"

C2_Witness ==
    /\ StreamingCalled /\ buf = <<"x">> /\ result.r.t = "Err"

\* the attribute map in front of the frame, when the buffer starts with one
LeadingAttribute(input) ==
    IF input # <<>> /\ input[1] = "|" THEN d_parse_attribute(Drop(input, 1)) ELSE Incomplete

\* the offset of a streaming header at the start of input, after an optional
\* attribute map; -1 when there is none
StreamingHeaderOffset(input) ==
    IF HeaderAt(input) THEN 0
    ELSE CHOOSE off \in
            {IF a.t = "Ok" /\ HeaderAt(a.rest) THEN Len(input) - Len(a.rest) ELSE -1 :
                a \in {LeadingAttribute(input)}} : TRUE

\* C3: on a buffer that begins with a streaming header, with or without an
\* attribute map before it, complete::decode is an Err and streaming::decode
\* returns the Streaming header of that kind, consumed up to the header's CRLF.
C3_StreamingHeaderIsErrorForComplete ==
    \A off \in {StreamingHeaderOffset(buf)} :
        off >= 0 =>
            /\ CompleteCalled => result.r.t = "Err"
            /\ StreamingCalled =>
                  /\ result.r.t = "Some"
                  /\ result.r.n = off + 4
                  /\ is_streaming(result.r.frame)
                  /\ result.r.frame.streamed.kind = from_byte(buf[off + 1])
                  /\ result.r.frame.streamed.buffer = <<>>

C3_Witness ==
    /\ CompleteCalled /\ result.r.t = "Err"
    /\ StreamingHeaderOffset(buf) > 4

\* C4: when a prefix B of the buffer decodes as one whole frame, complete::decode
\* on the buffer returns that frame and |B|, whatever bytes follow B.
C4_TrailingBytesIgnored ==
    CompleteCalled =>
        \A n \in 1..Len(buf) :
            \A p \in {complete_decode(Take(buf, n))} :
                (p.t = "Some" /\ p.n = n) => result.r = p

C4_Witness ==
    /\ CompleteCalled /\ result.r.t = "Some" /\ result.r.n < Len(buf)
    /\ result.r.frame.kind = "Array" /\ result.r.frame.items # <<>>

\* the decoded frame (or streaming header) with its attributes set to Some(m)
WithAttributes(frame, m) ==
    IF frame.variant = "Streaming"
    THEN Streaming([frame.streamed EXCEPT !.attributes = SomeAttributes(m)])
    ELSE Complete([frame.frame EXCEPT !.attributes = SomeAttributes(m)])

DecodedKind(frame) ==
    IF frame.variant = "Streaming" THEN frame.streamed.kind ELSE frame.frame.kind

\* the children of an aggregate, each decoded alone from where the previous ended
RECURSIVE ChildrenAlone(_, _)
ChildrenAlone(input, n) ==
    IF n = 0 THEN [frames |-> <<>>, consumed |-> 0]
    ELSE CHOOSE out \in
            {IF c.t # "Some" THEN [frames |-> <<>>, consumed |-> -1]
             ELSE LET more == ChildrenAlone(Drop(input, c.n), n - 1)
                  IN [frames |-> <<c.frame>> \o more.frames,
                      consumed |-> IF more.consumed < 0 THEN -1 ELSE c.n + more.consumed] :
                c \in {complete_decode(input)}} : TRUE

C6_StreamingHeaderOnly ==
    (StreamingCalled /\ HeaderAt(buf)) =>
        result.r = Some(Streaming(StreamedFrame_new(from_byte(buf[1]))), 4)

C6_Witness ==
    /\ StreamingCalled /\ HeaderAt(buf) /\ Len(buf) > 4 /\ buf[1] = "%"
    /\ result.r.t = "Some" /\ result.r.n = 4

(***************************************************************************)
(* Properties of the drained streams (StreamSpec).                         *)
(***************************************************************************)
\* the bytes the logged calls consumed
RECURSIVE SumConsumed(_)
SumConsumed(calls) ==
    IF calls = <<>> THEN 0
    ELSE (IF Head(calls).t = "Some" THEN Head(calls).n ELSE 0) + SumConsumed(Tail(calls))

\* header, one ChunkedString per chunk with the length of its wire form, EndStream
ExpectedBlobLog(chunks) ==
    <<Some(Streaming(StreamedFrame_new("BlobString")), 4)>>
    \o [i \in 1..Len(chunks) |->
          Some(Complete(DataFrame("ChunkedString", chunks[i])),
               1 + Len(DecimalText(Len(chunks[i]))) + 2 + Len(chunks[i]) + 2)]
    \o <<Some(Complete(new_end_stream), 4)>>

\* C7: draining `$?\r\n`, chunks `;<n>\r\n<n bytes>\r\n` and `;0\r\n` logs, in
\* order, Streaming(BlobString) consuming 4, one ChunkedString per chunk, then
\* EndStream consuming 4; no call is incomplete or an error, and when the buffer
\* is empty the consumed counts sum to its original length.
C7_StreamedBlobSequence ==
    sent.header = "$" =>
        \A expected \in {ExpectedBlobLog(sent.children)} :
            /\ Len(log) <= Len(expected)
            /\ \A i \in 1..Len(log) : log[i] = expected[i]
            /\ bytes = Drop(buf, SumConsumed(log))
            /\ (bytes = <<>>) <=> (Len(log) = Len(expected))
            /\ (bytes = <<>>) => SumConsumed(log) = Len(buf)

C7_Witness ==
    /\ sent.header = "$" /\ Len(sent.children) = 3 /\ bytes = <<>> /\ Len(log) = 5
    /\ sent.children[2] = <<";", "0", CR, LF>>
    /\ log[3].frame.frame.data = <<";", "0", CR, LF>>

\* the same children behind a length prefix: `*<n>`, `~<n>`, or `%<n/2>`
FixedWire(s) ==
    Line(s.header, DecimalText(IF s.header = "%" THEN Len(s.children) \div 2
                                ELSE Len(s.children)))
    \o Flatten(s.children)

\* C8: for a streamed Array, Set or Map, the StreamedFrame is finished exactly
\* once header, children and `.\r\n` have all been decoded and added, and
\* into_frame then gives a frame equal to complete::decode of the same children
\* behind a length prefix (for a Map, an even number of children).
C8_StreamedEqualsComplete ==
    sent.header \in AggregateHeaders =>
        /\ streamed.some =>
              (is_finished(streamed.v) <=> (Len(log) = Len(sent.children) + 2))
        /\ (ret # None /\ (sent.header = "%" => Len(sent.children) % 2 = 0)) =>
              \A fixed \in {complete_decode(FixedWire(sent))} :
                  /\ fixed.t = "Some"
                  /\ ret.t = "Some"
                  /\ FrameEq(ret.frame, fixed.frame)

\* the keys of the pairs a Map stream carries are pairwise different
DistinctKeys(children) ==
    \A i, j \in 1..(Len(children) \div 2) :
        children[2 * i - 1] = children[2 * j - 1] => i = j

\* C8 without the Map streams that repeat a key: the streamed and the
\* fixed-length decode agree
C8_DistinctKeysAgree ==
    (sent.header = "%" => DistinctKeys(sent.children)) => C8_StreamedEqualsComplete

(***************************************************************************)
(* Properties of RedisCodec::decode (CodecSpec).  Feed is the only step    *)
(* that changes fed, so a step that leaves fed alone and changes the state *)
(* is one call of decode.                                                  *)
(***************************************************************************)
\* C9: a call made while a stream is open, on a src that starts with a streaming
\* header (behind an attribute map or not): streaming::decode itself returns the
\* Streaming header, the codec returns the DecodeError "Cannot start a stream
\* while already inside a stream.", and decoder_stream, buffer included, is what
\* it was.
C9_NestedStreamIsCodecError ==
    [][(fed' = fed /\ decoder_stream.some /\ StreamingHeaderOffset(src) >= 0) =>
          \A d \in {streaming_decode(src)} :
              /\ d.t = "Some"
              /\ is_streaming(d.frame)
              /\ ret' = Err(NestedStream)
              /\ decoder_stream' = decoder_stream]_vars

C9_Witness ==
    /\ ret = Err(NestedStream)
    /\ decoder_stream.some
    /\ decoder_stream.v.kind = "Map"
    /\ Len(decoder_stream.v.buffer) = 1

\* C10: while a stream is open and unfinished, a call that decodes a frame other
\* than EndStream returns Ok(None) and appends it to the stream's buffer, and a
\* call on incomplete bytes returns Ok(None) and leaves the stream alone; a call
\* returns Some(frame) only for a complete frame decoded with no stream open, or
\* for into_frame of the open stream at the call that decodes EndStream; and
\* after a call that returns Some(frame) decoder_stream is None.
C10_CodecBuffersUntilEndStream ==
    [][fed' = fed =>
          \A d \in {streaming_decode(src)} :
              /\ (decoder_stream.some /\ ~is_finished(decoder_stream.v) /\ d.t = "None") =>
                    (ret' = None /\ decoder_stream' = decoder_stream)
              /\ (/\ decoder_stream.some /\ ~is_finished(decoder_stream.v)
                  /\ d.t = "Some" /\ ~is_streaming(d.frame)
                  /\ d.frame.frame.kind # "EndStream") =>
                    /\ ret' = None
                    /\ decoder_stream' =
                          [some |-> TRUE,
                           v |-> [decoder_stream.v EXCEPT
                                     !.buffer = Append(@, d.frame.frame)]]
              /\ ret'.t = "Some" =>
                    /\ ~decoder_stream'.some
                    /\ d.t = "Some"
                    /\ ~is_streaming(d.frame)
                    /\ IF decoder_stream.some
                       THEN /\ d.frame.frame.kind = "EndStream"
                            /\ ret'.frame =
                                  into_frame([decoder_stream.v EXCEPT !.finished = TRUE]).v
                       ELSE ret'.frame = d.frame.frame]_vars

C10_Witness ==
    /\ ret.t = "Some"
    /\ ret.frame.kind = "Map"
    /\ ret.frame.items # <<>>
    /\ ~decoder_stream.some
    /\ src = <<>>

(***************************************************************************)
(* Properties of the decoders on single wire forms (FrameSpec).            *)
(***************************************************************************)
StartsWith(input, pat) ==
    Len(input) >= Len(pat) /\ SubSeq(input, 1, Len(pat)) = pat

\* a ChunkedString or EndStream somewhere among the children of a frame
RECURSIVE HasStreamChild(_)
HasStreamChild(frame) ==
    \E i \in 1..Len(frame.items) :
        \/ frame.items[i].kind \in {"EndStream", "ChunkedString"}
        \/ HasStreamChild(frame.items[i])

\* C11: a buffer that starts with a stream terminator (`.\r\n` or `;0\r\n`), no
\* streaming header before it, is a DecodeError for both decoders, and
\* complete::decode never returns EndStream, nor a frame with an EndStream or
\* ChunkedString child.
C11_NoEndStreamOutsideStream ==
    /\ (result.call # "none"
        /\ (StartsWith(buf, Line(".", <<>>)) \/ StartsWith(buf, Line(";", <<"0">>)))) =>
          result.r.t = "Err"
    /\ (CompleteCalled /\ result.r.t = "Some") =>
          /\ result.r.frame.kind # "EndStream"
          /\ ~HasStreamChild(result.r.frame)

\* C12: when the two bytes after the declared payload of a BlobString, BlobError,
\* VerbatimString or chunk are present and are not CR LF, both decoders return a
\* DecodeError.
C12_TrailerMustBeCRLF ==
    (result.call # "none"
     /\ \E h \in PayloadHeads, t \in Trailers : t # CRLF /\ buf = h \o t) =>
        result.r.t = "Err"

\* C13: on a prefix line of an Array, Set, Map or BlobString, streaming::decode
\* returns a Streaming header exactly when the length field is the one character
\* `?` (a decimal number, -1 included, never does); on a prefix line of any other
\* sized kind a `?` length is a DecodeError.
C13_StreamingIffQuestionMark ==
    StreamingCalled =>
        \A f \in LengthFields :
            /\ \A b \in StreamableBytes :
                  buf = Line(b, f) =>
                      ((result.r.t = "Some" /\ is_streaming(result.r.frame)) <=> f = <<"?">>)
            /\ \A b \in SizedOnlyBytes :
                  (buf = Line(b, f) /\ f = <<"?">>) => result.r.t = "Err"

\* the frame a successful call returned (a scalar is never a Streaming header)
ReturnedFrame == IF CompleteCalled THEN result.r.frame ELSE result.r.frame.frame

\* C14: a Double payload that is inf, -inf or a decimal number decodes to a
\* Double; a payload that is nan in any letter case, or no number at all, is
\* an error; and no decode ever yields a Double holding not-a-number.
C14_NanIsNeverDecoded ==
    result.call # "none" =>
        /\ \A t \in DoubleNumbers :
              buf = Line(",", t) =>
                  /\ result.r.t = "Some"
                  /\ result.r.n = Len(buf)
                  /\ ReturnedFrame.kind = "Double"
                  /\ ReturnedFrame.aux # "nan"
        /\ \A t \in DoubleNans \cup DoubleJunk :
              buf = Line(",", t) => result.r.t = "Err"
        /\ (result.r.t = "Some" /\ StartsWith(buf, <<",">>)) =>
              ReturnedFrame.aux # "nan"

\* C15: a VerbatimString whose declared length is 0..3 is never decoded to a
\* frame and never makes the decoder fail abnormally; once the bytes of the
\* format tag and its separator are in the buffer the result is a DecodeError,
\* not a request for more input.
C15_ShortVerbatimIsError ==
    (result.call # "none" /\ \E l \in ShortLens : StartsWith(buf, Line("=", l))) =>
        /\ result.r.t \in {"None", "Err"}
        /\ Len(buf) >= 8 => result.r.t = "Err"

\* C16: `=<L>\r\n<fmt>:<data>\r\n` with L >= 4 and fmt txt or mkd decodes to a
\* VerbatimString whose data is the L - 4 bytes after the separator and whose
\* format is Text or Markdown, consuming 1 + digits(L) + 2 + L + 2 bytes (22 for
\* `=15\r\nmkd:Some string\r\n`); with any other 3-byte tag it is a DecodeError.
C16_VerbatimLayout ==
    result.call # "none" =>
        \A tag \in VerbatimTags, data \in VerbatimData :
            buf = VerbatimWire(tag, data) =>
                IF tag \in {<<"t", "x", "t">>, <<"m", "k", "d">>}
                THEN /\ result.r.t = "Some"
                     /\ ReturnedFrame.kind = "VerbatimString"
                     /\ ReturnedFrame.data = data
                     /\ Len(ReturnedFrame.data) = (Len(data) + 4) - 4
                     /\ ReturnedFrame.aux = (IF tag = <<"t", "x", "t">> THEN "Text" ELSE "Markdown")
                     /\ ReturnedFrame.attributes = NoAttributes
                     /\ result.r.n = 1 + Len(DecimalText(Len(data) + 4)) + 2 + (Len(data) + 4) + 2
                     /\ (Len(data) = 11 => result.r.n = 22)
                ELSE result.r.t = "Err"

C16_Witness ==
    /\ CompleteCalled
    /\ buf = VerbatimWire(<<"m", "k", "d">>, <<"S", "o", "m", "e", " ", "s", "t", "r", "i", "n", "g">>)
    /\ result.r.t = "Some"
    /\ result.r.n = 22
    /\ result.r.frame.aux = "Markdown"

\* C17: the decoders are total: every call returns a frame, a request for more
\* input or a DecodeError; none fails abnormally, whatever the declared length
\* of a VerbatimString (`len - 4`) or of a Map or attribute map (`len * 2`).
C17_DecodersAreTotal ==
    result.call # "none" => result.r.t \in {"Some", "None", "Err"}

\* C18: a Hello frame is decoded only with version 2 or 3, as RESP2 or RESP3;
\* a complete Hello with any other version is a DecodeError, neither a request
\* for more input nor a frame.
C18_HelloVersionChecked ==
    result.call # "none" =>
        /\ (result.r.t = "Some" /\ StartsWith(buf, <<"H">>) /\ ReturnedFrame.kind = "Hello") =>
              \E h \in HelloHeads, v \in ValidVersions :
                  /\ StartsWith(buf, h \o v)
                  /\ ReturnedFrame.aux = (IF v[Len(v)] \in {"x02", "2"} THEN "RESP2" ELSE "RESP3")
        /\ \A v \in OtherVersions, t \in HelloTails :
              buf = HELLO \o v \o t => result.r.t = "Err"

\* C19: a complete Hello with a valid version and no AUTH part decodes, with no
\* further input, to a Hello without credentials; with `AUTH <user> <pass>` it
\* decodes to a Hello whose credentials are the user and the password in wire
\* order.
C19_HelloAuthOptional ==
    result.call # "none" =>
        \A v \in ValidVersions, t \in HelloTails :
            buf = HELLO \o v \o t =>
                /\ result.r.t = "Some"
                /\ ReturnedFrame.kind = "Hello"
                /\ ReturnedFrame.aux = (IF v[Len(v)] \in {"x02", "2"} THEN "RESP2" ELSE "RESP3")
                /\ IF t = CRLF
                   THEN ReturnedFrame.num = 0
                   ELSE /\ ReturnedFrame.num = 1
                        /\ ReturnedFrame.data = <<"u">>
                        /\ ReturnedFrame.extra = <<"p">>

\* C20: with the insertion-ordered containers, a Map or an attribute map decoded
\* from pairs (k1, v1), ..., (kn, vn) with distinct keys iterates its entries in
\* wire order, (k1, v1) first and (kn, vn) last.
C20_MapKeepsWireOrder ==
    result.call # "none" =>
        \A es \in MapEntries :
            /\ buf = MapWire(es) =>
                  /\ result.r.t = "Some"
                  /\ ReturnedFrame.kind = "Map"
                  /\ ReturnedFrame.items = EntryFrames(es)
            /\ buf = AttributeWire(es) =>
                  /\ result.r.t = "Some"
                  /\ ReturnedFrame.kind = "Boolean"
                  /\ ReturnedFrame.attributes = SomeAttributes(EntryFrames(es))

\* C21: an attribute map is never a result of its own: a buffer holding only a
\* complete attribute map is a request for more input, a complete attribute map
\* followed by the prefix byte of another attribute map is a DecodeError, and no
\* returned frame is of the Attribute kind.
C21_AttributeNeverStandalone ==
    result.call # "none" =>
        /\ \A es \in AttributeEntries :
              /\ buf = AttributeOnly(es) => result.r.t = "None"
              /\ StartsWith(buf, AttributeOnly(es) \o <<"|">>) => result.r.t = "Err"
        /\ result.r.t = "Some" =>
              (IF CompleteCalled THEN result.r.frame.kind ELSE DecodedKind(result.r.frame))
                  # "Attribute"

C21_Witness ==
    /\ CompleteCalled
    /\ buf = DoubleAttributeWire(<<[k |-> "a", v |-> 1]>>, <<[k |-> "z", v |-> 9]>>)
    /\ result.r.t = "Err"
    /\ result.r.id = "parse_non_attribute_frame"

\* C22: a CRLF-terminated line of a SimpleString, SimpleError, Number, Double,
\* Boolean or Null, or of any length prefix, that holds a byte that is not valid
\* UTF-8 is a DecodeError; the same bytes with the CRLF not yet complete are a
\* request for more input; the payloads of BlobString, BlobError, BigNumber and
\* chunks are decoded whatever their bytes.
C22_TextLinesAreUtf8 ==
    result.call # "none" =>
        /\ \A b \in TextBytes \cup StreamableBytes \cup SizedOnlyBytes, t \in InvalidTexts :
              /\ buf = Line(b, t) => result.r.t = "Err"
              /\ buf \in {<<b>> \o t, <<b>> \o t \o <<CR>>} => result.r.t = "None"
        /\ \A b \in BinaryBytes, payload \in BinaryPayloads :
              buf = BinaryWire(b, payload) =>
                  /\ result.r.t = "Some"
                  /\ result.r.n = Len(buf)
                  /\ ReturnedFrame.data = payload

C22_Witness ==
    /\ CompleteCalled
    /\ buf = Line("_", <<InvalidUtf8Byte>>)
    /\ result.r.t = "Err"
    /\ result.r.id = "from_utf8"

\* the bytes the children consume, each decoded alone
RECURSIVE ConsumedAlone(_)
ConsumedAlone(cs) ==
    IF cs = <<>> THEN 0 ELSE complete_decode(Head(cs)).n + ConsumedAlone(Tail(cs))

\* C23: an Array or Push of declared length n followed by n complete children
\* decodes to a frame holding n children in wire order, each the frame its bytes
\* decode to alone, and consumes the header (1 + digits of n + 2 bytes) plus what
\* the children consume alone; followed by fewer than n complete children and
\* nothing else, it is a request for more input.
C23_ArrayChildrenInOrder ==
    result.call # "none" =>
        \A b \in ArrayBytes, cs \in ChildLists :
            /\ buf = ArrayWire(b, cs) =>
                  /\ \A i \in 1..Len(cs) : complete_decode(cs[i]).t = "Some"
                  /\ result.r.t = "Some"
                  /\ ReturnedFrame.kind = (IF b = "*" THEN "Array" ELSE "Push")
                  /\ Len(ReturnedFrame.items) = Len(cs)
                  /\ \A i \in 1..Len(cs) : ReturnedFrame.items[i] = complete_decode(cs[i]).frame
                  /\ result.r.n = 1 + Len(DecimalText(Len(cs))) + 2 + ConsumedAlone(cs)
            /\ \A k \in 0..(Len(cs) - 1) :
                  buf = Line(b, DecimalText(Len(cs))) \o Flatten(Take(cs, k)) =>
                      result.r.t = "None"

C23_Witness ==
    /\ CompleteCalled
    /\ buf = ArrayWire("*", <<BlobWire(Foo), Line("_", <<>>), BlobWire(Bar)>>)
    /\ result.r.t = "Some"
    /\ result.r.n = 25
    /\ Len(result.r.frame.items) = 3
    /\ result.r.frame.items[2].kind = "Null"

\* the kind of the frame, or of the streaming header, a successful call returned
ReturnedKind ==
    IF CompleteCalled THEN result.r.frame.kind ELSE DecodedKind(result.r.frame)

\* C24: a Null is returned only for a buffer that begins with the 3 bytes `_` CR
\* LF, consuming 3 bytes; an EndStream only for one that begins with `.` CR LF,
\* consuming 3, or with `;0` CR LF, consuming 4; a `_` or `.` line holding any
\* byte before its CRLF is a DecodeError.
C24_MarkersAreExact ==
    result.call # "none" =>
        /\ (result.r.t = "Some" /\ ReturnedKind = "Null") =>
              (StartsWith(buf, Line("_", <<>>)) /\ result.r.n = 3)
        /\ (result.r.t = "Some" /\ ReturnedKind = "EndStream") =>
              \/ StartsWith(buf, Line(".", <<>>)) /\ result.r.n = 3
              \/ StartsWith(buf, Line(";", <<"0">>)) /\ result.r.n = 4
        /\ \A b \in {"_", "."}, x \in MarkerTexts \ {<<>>} :
              buf = Line(b, x) => result.r.t = "Err"

\* the entries a map read from the pairs es holds when, for each key, the value
\* of the key's first pair is kept
FirstOccurrences(es) ==
    {<<DataFrame("SimpleString", <<es[i].k>>), NumFrame("Number", es[i].v)>> :
        i \in {j \in 1..Len(es) : \A h \in 1..(j - 1) : es[h].k # es[j].k}}

\* C25: a Map or attribute map whose wire form repeats a key still decodes,
\* consuming all its 2n children; the decoded map holds one entry per key, with
\* the value of the key's first pair on the wire, and so fewer than n entries.
C25_FirstOccurrenceWins ==
    result.call # "none" =>
        \A es \in RepeatedKeyEntries :
            /\ buf = MapWire(es) =>
                  /\ result.r.t = "Some"
                  /\ result.r.n = Len(buf)
                  /\ ReturnedFrame.kind = "Map"
                  /\ Pairs(ReturnedFrame.items) = FirstOccurrences(es)
                  /\ Len(ReturnedFrame.items) = 2 * Cardinality(FirstOccurrences(es))
                  /\ Len(ReturnedFrame.items) < 2 * Len(es)
            /\ buf = AttributeWire(es) =>
                  /\ result.r.t = "Some"
                  /\ result.r.n = Len(buf)
                  /\ ReturnedFrame.attributes.some
                  /\ Pairs(ReturnedFrame.attributes.map) = FirstOccurrences(es)
                  /\ Len(ReturnedFrame.attributes.map) = 2 * Cardinality(FirstOccurrences(es))
                  /\ Len(ReturnedFrame.attributes.map) < 2 * Len(es)

C25_Witness ==
    /\ CompleteCalled
    /\ buf = MapWire(<<[k |-> "a", v |-> 1], [k |-> "b", v |-> 2], [k |-> "a", v |-> 3]>>)
    /\ result.r.t = "Some"
    /\ Len(result.r.frame.items) = 4
    /\ <<DataFrame("SimpleString", <<"a">>), NumFrame("Number", 1)>> \in Pairs(result.r.frame.items)

\* C26: once a streaming header stands in the buffer as a child of a
\* fixed-length Array, Set, Map, Push or attribute map, both decoders return a
\* DecodeError, whatever follows: not a Streaming header, not a request for more
\* input, not an aggregate.
C26_StreamingChildIsError ==
    (result.call # "none" /\ \E p \in StreamChildPrefixes : StartsWith(buf, p)) =>
        result.r.t = "Err"

C26_Witness ==
    /\ StreamingCalled
    /\ buf = Line("%", <<"2">>) \o Line(":", <<"1">>) \o Line("~", <<"?">>)
    /\ result.r.t = "Err"
    /\ result.r.id = "unwrap_complete_frame"
====
